---- MODULE Spec2Model ----
(***************************************************************************)
(* MaskedInput (src/registry/masked-input/masked-input.tsx).               *)
(*                                                                         *)
(* A string is a sequence of one-character strings.  The code indexes      *)
(* strings from 0; At(s, i) is s[i].                                       *)
(*                                                                         *)
(* Three specifications share the variables:                               *)
(*   SpecFormat  one call of formatToMask, one loop iteration per step;    *)
(*   Spec        the component: handleChange and handlePaste, each a       *)
(*               whole handler per step;                                   *)
(*   SpecKeys    handleKeyDown.                                            *)
(***************************************************************************)
EXTENDS Integers, Sequences, FiniteSets, TLC

VARIABLES
    mask,                \* prop: the mask pattern
    inputValue,          \* formatToMask's argument
    loop,                \* formatToMask's locals (see InitLoop)
    iterations,          \* loop bodies executed by the running call
    pc,                  \* "idle" | "loop" | "done"
    controlledValue,     \* prop value, or Undefined
    onChange,            \* prop: TRUE when an onChange callback is registered
    onMaskedChange,      \* prop: TRUE when an onMaskedChange callback is registered
    value,               \* React state (useState)
    elemValue,           \* the input element's value (e.target.value, input.value)
    event,               \* the event handled last
    onChangeCalls,       \* values the last event passed to onChange
    onMaskedChangeCalls  \* <<formatted, unformatted>> pairs the last event passed

vars == <<mask, inputValue, loop, iterations, pc, controlledValue, onChange,
          onMaskedChange, value, elemValue, event, onChangeCalls,
          onMaskedChangeCalls>>

formatVars == <<inputValue, loop, iterations, pc>>
widgetVars == <<controlledValue, onChange, onMaskedChange, value, elemValue,
                event, onChangeCalls, onMaskedChangeCalls>>

(* ------------------------------ bounds -------------------------------- *)

MaxMaskLen == 4
MaxInputLen == 3
MaxWidgetMaskLen == 2
MaxTextLen == 2

(* ---------------------------- characters ------------------------------ *)

Digits == {"0", "1", "2", "3", "4", "5", "6", "7", "8", "9"}

Letters ==
    {"a", "b", "c", "d", "e", "f", "g", "h", "i", "j", "k", "l", "m",
     "n", "o", "p", "q", "r", "s", "t", "u", "v", "w", "x", "y", "z",
     "A", "B", "C", "D", "E", "F", "G", "H", "I", "J", "K", "L", "M",
     "N", "O", "P", "Q", "R", "S", "T", "U", "V", "W", "X", "Y", "Z"}

\* /[A-Za-z0-9]/ on one character
Alnum == Letters \cup Digits

\* ['9', 'a', '*']
Placeholders == {"9", "a", "*"}

At(s, i) == s[i + 1]

Undefined == <<"undefined">>

SeqsUpTo(S, n) == UNION {[1..k -> S] : k \in 0..n}

(* --------------------------- formatToMask ----------------------------- *)

charMatchesMask(char, maskChar) ==
    IF maskChar = "9" THEN char \in Digits
    ELSE IF maskChar = "a" THEN char \in Letters
    ELSE IF maskChar = "*" THEN char \in Alnum
    ELSE FALSE

\* The locals of formatToMask before the loop.  brk records that the loop
\* was left by break.  History, not read by the code: origin[i] is the mask
\* index that produced formatted[i], kind[i] how ("input": consumed at a
\* placeholder, "typed": a literal matched by the input, "auto": a literal
\* inserted), skipped the <<maskIndex, inputIndex>> of every placeholder
\* passed over, branch the branch the last iteration took.
InitLoop ==
    [formatted |-> <<>>, unformatted |-> <<>>, inputIndex |-> 0,
     maskIndex |-> 0, brk |-> FALSE,
     origin |-> <<>>, kind |-> <<>>, skipped |-> {}, branch |-> "none"]

Emit(s, char, how) ==
    [s EXCEPT !.formatted = Append(@, char),
              !.origin = Append(@, s.maskIndex),
              !.kind = Append(@, how)]

PlaceholderBranchConsumesMismatch(input, s) ==
    LET maskChar == At(mask, s.maskIndex) IN
    IF s.inputIndex < Len(input)
    THEN LET char == At(input, s.inputIndex) IN
         IF charMatchesMask(char, maskChar)
         THEN [Emit(s, char, "input") EXCEPT
                  !.unformatted = Append(@, char),
                  !.inputIndex = @ + 1,
                  !.branch = "consume"]
         ELSE [s EXCEPT !.skipped = @ \cup {<<s.maskIndex, s.inputIndex>>},
                        !.inputIndex = @ + 1,
                        !.branch = "skip"]
    ELSE [s EXCEPT !.brk = TRUE, !.branch = "noInput"]

\* lines 77-91: the mask position is a placeholder
PlaceholderBranch(input, s) ==
    LET maskChar == At(mask, s.maskIndex) IN
    IF s.inputIndex < Len(input)
    THEN LET char == At(input, s.inputIndex) IN
         IF charMatchesMask(char, maskChar)
         THEN [Emit(s, char, "input") EXCEPT
                  !.unformatted = Append(@, char),
                  !.inputIndex = @ + 1,
                  !.branch = "consume"]
         ELSE [s EXCEPT !.skipped = @ \cup {<<s.maskIndex, s.inputIndex>>},
                        !.branch = "skip"]
    ELSE [s EXCEPT !.brk = TRUE, !.branch = "noInput"]

LiteralBranchNoAutoInsert(input, s) ==
    LET maskChar == At(mask, s.maskIndex) IN
    IF s.inputIndex < Len(input) /\ At(input, s.inputIndex) = maskChar
    THEN [Emit(s, maskChar, "typed") EXCEPT
             !.inputIndex = @ + 1, !.branch = "typed"]
    ELSE [s EXCEPT !.brk = TRUE, !.branch = "noInputLiteral"]

LiteralBranchPads(input, s) ==
    LET maskChar == At(mask, s.maskIndex)
        nextMaskIndex == s.maskIndex + 1
    IN
    IF s.inputIndex < Len(input) /\ At(input, s.inputIndex) = maskChar
    THEN [Emit(s, maskChar, "typed") EXCEPT
             !.inputIndex = @ + 1, !.branch = "typed"]
    ELSE IF s.inputIndex < Len(input)
    THEN IF nextMaskIndex < Len(mask) /\ At(mask, nextMaskIndex) \in Placeholders
         THEN IF charMatchesMask(At(input, s.inputIndex), At(mask, nextMaskIndex))
              THEN [Emit(s, maskChar, "auto") EXCEPT !.branch = "autoInsert"]
              ELSE [s EXCEPT !.brk = TRUE, !.branch = "mismatch"]
         ELSE [Emit(s, maskChar, "auto") EXCEPT !.branch = "insertNoLookahead"]
    ELSE [Emit(s, maskChar, "auto") EXCEPT !.branch = "noInputLiteral"]

LiteralBranchNoLookahead(input, s) ==
    LET maskChar == At(mask, s.maskIndex) IN
    IF s.inputIndex < Len(input) /\ At(input, s.inputIndex) = maskChar
    THEN [Emit(s, maskChar, "typed") EXCEPT
             !.inputIndex = @ + 1, !.branch = "typed"]
    ELSE IF s.inputIndex < Len(input)
    THEN [Emit(s, maskChar, "auto") EXCEPT !.branch = "autoInsert"]
    ELSE [s EXCEPT !.brk = TRUE, !.branch = "noInputLiteral"]

LiteralBranchTypedIsUnformatted(input, s) ==
    LET maskChar == At(mask, s.maskIndex)
        nextMaskIndex == s.maskIndex + 1
    IN
    IF s.inputIndex < Len(input) /\ At(input, s.inputIndex) = maskChar
    THEN [Emit(s, maskChar, "typed") EXCEPT
             !.unformatted = Append(@, maskChar),
             !.inputIndex = @ + 1, !.branch = "typed"]
    ELSE IF s.inputIndex < Len(input)
    THEN IF nextMaskIndex < Len(mask) /\ At(mask, nextMaskIndex) \in Placeholders
         THEN IF charMatchesMask(At(input, s.inputIndex), At(mask, nextMaskIndex))
              THEN [Emit(s, maskChar, "auto") EXCEPT !.branch = "autoInsert"]
              ELSE [s EXCEPT !.brk = TRUE, !.branch = "mismatch"]
         ELSE [Emit(s, maskChar, "auto") EXCEPT !.branch = "insertNoLookahead"]
    ELSE [s EXCEPT !.brk = TRUE, !.branch = "noInputLiteral"]

\* lines 92-122: the mask position is a literal
LiteralBranch(input, s) ==
    LET maskChar == At(mask, s.maskIndex)
        nextMaskIndex == s.maskIndex + 1
    IN
    IF s.inputIndex < Len(input) /\ At(input, s.inputIndex) = maskChar
    THEN [Emit(s, maskChar, "typed") EXCEPT
             !.inputIndex = @ + 1, !.branch = "typed"]
    ELSE IF s.inputIndex < Len(input)
    THEN IF nextMaskIndex < Len(mask) /\ At(mask, nextMaskIndex) \in Placeholders
         THEN IF charMatchesMask(At(input, s.inputIndex), At(mask, nextMaskIndex))
              THEN [Emit(s, maskChar, "auto") EXCEPT !.branch = "autoInsert"]
              ELSE [s EXCEPT !.brk = TRUE, !.branch = "mismatch"]
         ELSE [Emit(s, maskChar, "auto") EXCEPT !.branch = "insertNoLookahead"]
    ELSE [s EXCEPT !.brk = TRUE, !.branch = "noInputLiteral"]

LoopBodySkipStalls(input, s) ==
    LET t == IF At(mask, s.maskIndex) \in Placeholders
             THEN PlaceholderBranch(input, s)
             ELSE LiteralBranch(input, s)
    IN IF t.brk \/ t.branch = "skip" THEN t ELSE [t EXCEPT !.maskIndex = @ + 1]

\* lines 73-123: one iteration of the for loop, maskIndex++ unless it breaks
LoopBody(input, s) ==
    LET t == IF At(mask, s.maskIndex) \in Placeholders
             THEN PlaceholderBranch(input, s)
             ELSE LiteralBranch(input, s)
    IN IF t.brk THEN t ELSE [t EXCEPT !.maskIndex = @ + 1]

\* the for loop's condition
LoopRuns(s) == ~s.brk /\ s.maskIndex < Len(mask)

RECURSIVE RunLoop(_, _)
RunLoop(input, s) ==
    IF LoopRuns(s) THEN RunLoop(input, LoopBody(input, s)) ELSE s

Result(s) == [formatted |-> s.formatted, unformatted |-> s.unformatted]

\* lines 66-129
formatToMask(input) == Result(RunLoop(input, InitLoop))

(* ------------------- SpecFormat: one call of formatToMask ------------- *)

MaskAlphabet == {"9", "a", "*", "-", "b"}
InputAlphabet == {"1", "b"}

Masks == SeqsUpTo(MaskAlphabet, MaxMaskLen)
Inputs == SeqsUpTo(InputAlphabet, MaxInputLen)

\* the masks of the component's documentation (lines 14-17)
PhoneMask == <<"(", "9", "9", "9", ")", " ", "9", "9", "9", "-", "9", "9", "9", "9">>
DateMask == <<"9", "9", "/", "9", "9", "/", "9", "9", "9", "9">>
PostalMask == <<"a", "9", "a", " ", "9", "a", "9">>

Examples ==
    {<<PhoneMask, <<"5", "5", "5", "5", "5", "5", "5", "5", "5", "5">>>>,
     <<DateMask, <<"0", "1", "1", "5", "2", "0", "2", "4">>>>,
     <<PostalMask, <<"1">> >>,
     <<PostalMask, <<"1", "B", "2">> >>,
     <<PostalMask, <<"K", "1", "A", "0", "B", "1">> >>}

NoEvent == [type |-> "none"]

WidgetIdle ==
    /\ controlledValue = Undefined
    /\ onChange = FALSE
    /\ onMaskedChange = FALSE
    /\ value = <<>>
    /\ elemValue = <<>>
    /\ event = NoEvent
    /\ onChangeCalls = <<>>
    /\ onMaskedChangeCalls = <<>>

InitFormat ==
    /\ \/ mask \in Masks /\ inputValue \in Inputs
       \/ \E e \in Examples : mask = e[1] /\ inputValue = e[2]
    /\ loop = InitLoop
    /\ iterations = 0
    /\ pc = "loop"
    /\ WidgetIdle

\* one iteration of the for loop (lines 73-123)
FormatStep ==
    /\ pc = "loop"
    /\ LoopRuns(loop)
    /\ loop' = LoopBody(inputValue, loop)
    /\ iterations' = iterations + 1
    /\ UNCHANGED <<mask, inputValue, pc, widgetVars>>

\* the loop is left and the result returned (lines 125-128)
FormatReturn ==
    /\ pc = "loop"
    /\ ~LoopRuns(loop)
    /\ pc' = "done"
    /\ UNCHANGED <<mask, inputValue, loop, iterations, widgetVars>>

NextFormat == FormatStep \/ FormatReturn

SpecFormat == InitFormat /\ [][NextFormat]_vars

(* --------------- Spec: the component's change and paste handlers ------ *)

WidgetMaskAlphabet == {"9", "a", "-", "b"}
TextAlphabet == {"1", "b", "-"}

WidgetMasks == SeqsUpTo(WidgetMaskAlphabet, MaxWidgetMaskLen)
Texts == SeqsUpTo(TextAlphabet, MaxTextLen)
ControlledValues == {<<"1", "-">>}

\* lines 42-43
displayValue == IF controlledValue # Undefined THEN controlledValue ELSE value

\* lines 135-138, 189-192: the alphanumeric characters of a text
validChars(text) == SelectSeq(text, LAMBDA char : char \in Alnum)

\* a text one insertion or one deletion away from d
Edits(d) ==
    {SubSeq(d, 1, i - 1) \o SubSeq(d, i + 1, Len(d)) : i \in 1..Len(d)}
    \cup {SubSeq(d, 1, i) \o <<c>> \o SubSeq(d, i + 1, Len(d)) :
             i \in 0..Len(d), c \in TextAlphabet}

FormatIdle ==
    /\ inputValue = <<>>
    /\ loop = InitLoop
    /\ iterations = 0
    /\ pc = "idle"

\* the component as mounted: useState('') (line 41), no event yet
Init ==
    /\ mask \in WidgetMasks
    /\ controlledValue \in {Undefined} \cup ControlledValues
    /\ onChange \in BOOLEAN
    /\ onMaskedChange \in BOOLEAN
    /\ value = <<>>
    /\ elemValue = displayValue
    /\ event = NoEvent
    /\ onChangeCalls = <<>>
    /\ onMaskedChangeCalls = <<>>
    /\ FormatIdle

handleChangeStoresUnformatted(text) ==
    \E r \in {formatToMask(validChars(text))} :
    /\ value' = IF controlledValue = Undefined THEN r.unformatted ELSE value
    /\ elemValue' = IF onChange THEN r.formatted ELSE text
    /\ onChangeCalls' = IF onChange THEN <<r.formatted>> ELSE <<>>
    /\ onMaskedChangeCalls' =
          IF onMaskedChange THEN << <<r.formatted, r.unformatted>> >> ELSE <<>>
    /\ event' = [type |-> "change", text |-> text, defaultPrevented |-> FALSE]
    /\ UNCHANGED <<mask, controlledValue, onChange, onMaskedChange, formatVars>>

handleChangeAlwaysSetsValue(text) ==
    \E r \in {formatToMask(validChars(text))} :
    /\ value' = r.formatted
    /\ elemValue' = IF onChange THEN r.formatted ELSE text
    /\ onChangeCalls' = IF onChange THEN <<r.formatted>> ELSE <<>>
    /\ onMaskedChangeCalls' =
          IF onMaskedChange THEN << <<r.formatted, r.unformatted>> >> ELSE <<>>
    /\ event' = [type |-> "change", text |-> text, defaultPrevented |-> FALSE]
    /\ UNCHANGED <<mask, controlledValue, onChange, onMaskedChange, formatVars>>

\* lines 131-157; text is e.target.value as the browser delivers it
handleChange(text) ==
    \E r \in {formatToMask(validChars(text))} :
    /\ value' = IF controlledValue = Undefined THEN r.formatted ELSE value
    /\ elemValue' = IF onChange THEN r.formatted ELSE text
    /\ onChangeCalls' = IF onChange THEN <<r.formatted>> ELSE <<>>
    /\ onMaskedChangeCalls' =
          IF onMaskedChange THEN << <<r.formatted, r.unformatted>> >> ELSE <<>>
    /\ event' = [type |-> "change", text |-> text, defaultPrevented |-> FALSE]
    /\ UNCHANGED <<mask, controlledValue, onChange, onMaskedChange, formatVars>>

handlePasteNoFilter(pastedText) ==
    \E r \in {formatToMask(pastedText)} :
    /\ value' = IF controlledValue = Undefined THEN r.formatted ELSE value
    /\ elemValue' = r.formatted
    /\ onChangeCalls' = IF onChange THEN <<r.formatted>> ELSE <<>>
    /\ onMaskedChangeCalls' =
          IF onMaskedChange THEN << <<r.formatted, r.unformatted>> >> ELSE <<>>
    /\ event' = [type |-> "paste", text |-> pastedText, defaultPrevented |-> TRUE]
    /\ UNCHANGED <<mask, controlledValue, onChange, onMaskedChange, formatVars>>

\* lines 184-213; pastedText is the clipboard's text/plain
handlePaste(pastedText) ==
    \E r \in {formatToMask(validChars(pastedText))} :
    /\ value' = IF controlledValue = Undefined THEN r.formatted ELSE value
    /\ elemValue' = r.formatted
    /\ onChangeCalls' = IF onChange THEN <<r.formatted>> ELSE <<>>
    /\ onMaskedChangeCalls' =
          IF onMaskedChange THEN << <<r.formatted, r.unformatted>> >> ELSE <<>>
    /\ event' = [type |-> "paste", text |-> pastedText, defaultPrevented |-> TRUE]
    /\ UNCHANGED <<mask, controlledValue, onChange, onMaskedChange, formatVars>>

Change == \E text \in Texts \cup Edits(displayValue) : handleChange(text)

Paste == \E pastedText \in Texts : handlePaste(pastedText)

Next == Change \/ Paste

Spec == Init /\ [][Next]_vars

(* ----------------------- SpecKeys: handleKeyDown ---------------------- *)

\* lines 160-167
allowedKeys ==
    {<<"B", "a", "c", "k", "s", "p", "a", "c", "e">>,
     <<"D", "e", "l", "e", "t", "e">>,
     <<"A", "r", "r", "o", "w", "L", "e", "f", "t">>,
     <<"A", "r", "r", "o", "w", "R", "i", "g", "h", "t">>,
     <<"T", "a", "b">>,
     <<"E", "n", "t", "e", "r">>}

\* KeyboardEvent.key values the browser may deliver
Keys ==
    allowedKeys \cup
    {<<"A", "r", "r", "o", "w", "U", "p">>,
     <<"A", "r", "r", "o", "w", "D", "o", "w", "n">>,
     <<"H", "o", "m", "e">>,
     <<"E", "n", "d">>,
     <<"E", "s", "c", "a", "p", "e">>,
     <<"F", "5">>,
     <<"a">>,
     <<"Z">>,
     <<"5">>,
     <<"-">>,
     <<" ">>,
     <<"(">>,
     <<"/">>}

\* /[A-Za-z0-9]/.test(e.key) (line 178)
HasAlnum(key) == \E i \in 1..Len(key) : key[i] \in Alnum

\* lines 159-182
handleKeyDown(key, ctrlKey, metaKey, altKey, shiftKey) ==
    LET isModifierKey == ctrlKey \/ metaKey \/ altKey \/ shiftKey
        prevented ==
            IF isModifierKey THEN FALSE
            ELSE IF key \in allowedKeys THEN FALSE
            ELSE IF HasAlnum(key) THEN FALSE
            ELSE TRUE
    IN
    /\ event' = [type |-> "keydown", key |-> key, ctrlKey |-> ctrlKey,
                 metaKey |-> metaKey, altKey |-> altKey, shiftKey |-> shiftKey,
                 defaultPrevented |-> prevented]
    /\ UNCHANGED <<mask, controlledValue, onChange, onMaskedChange, value,
                   elemValue, onChangeCalls, onMaskedChangeCalls, formatVars>>

InitKeys ==
    /\ mask = PhoneMask
    /\ WidgetIdle
    /\ FormatIdle

KeyDown ==
    \E key \in Keys, ctrlKey \in BOOLEAN, metaKey \in BOOLEAN,
       altKey \in BOOLEAN, shiftKey \in BOOLEAN :
        handleKeyDown(key, ctrlKey, metaKey, altKey, shiftKey)

NextKeys == KeyDown

SpecKeys == InitKeys /\ [][NextKeys]_vars

(* ------------------------- claims: formatToMask ------------------------ *)

IsLiteral(c) == c \notin Placeholders

PlaceholderPositions(m) == {i \in 1..Len(m) : m[i] \in Placeholders}

PlaceholderCount(m) == Cardinality(PlaceholderPositions(m))

\* the number of placeholders among m[1..i]
Rank(m, i) == Cardinality({j \in 1..i : m[j] \in Placeholders})

LiteralsNonAlnum(m) == \A i \in 1..Len(m) : IsLiteral(m[i]) => m[i] \notin Alnum

EndsInPlaceholder(m) == Len(m) > 0 /\ m[Len(m)] \in Placeholders

\* every literal is directly followed by a placeholder
LiteralsLeadPlaceholders(m) ==
    \A i \in 1..Len(m) :
        IsLiteral(m[i]) => i < Len(m) /\ m[i + 1] \in Placeholders

\* x has one character per placeholder, the k-th of the k-th placeholder's class
InputFits(m, x) ==
    /\ Len(x) = PlaceholderCount(m)
    /\ \A i \in PlaceholderPositions(m) : charMatchesMask(x[Rank(m, i)], m[i])

\* m with each placeholder replaced by the corresponding character of x
Fill(m, x) ==
    [i \in 1..Len(m) |-> IF m[i] \in Placeholders THEN x[Rank(m, i)] ELSE m[i]]

IsPrefix(a, b) == Len(a) <= Len(b) /\ SubSeq(b, 1, Len(a)) = a

RECURSIVE IsSubseq(_, _)
IsSubseq(a, b) ==
    IF a = <<>> THEN TRUE
    ELSE IF b = <<>> THEN FALSE
    ELSE IF Head(a) = Head(b) THEN IsSubseq(Tail(a), Tail(b))
    ELSE IsSubseq(a, Tail(b))

Last(s) == s[Len(s)]

\* the characters of formatted that were consumed at a placeholder
ConsumedOf(s) ==
    LET idx == {i \in 1..Len(s.formatted) : s.kind[i] = "input"}
        RECURSIVE Pick(_)
        Pick(i) == IF i > Len(s.formatted) THEN <<>>
                   ELSE IF i \in idx THEN <<s.formatted[i]>> \o Pick(i + 1)
                   ELSE Pick(i + 1)
    IN Pick(1)

SkippedSlots(s) == {p[1] : p \in s.skipped}

EmittedSlots(s) == {s.origin[i] : i \in 1..Len(s.origin)}

Done == pc = "done"

\* C1: when the mask's literals are all non-alphanumeric, its last symbol is
\* a placeholder and the raw input has one character of the right class per
\* placeholder, the result is the mask with each placeholder replaced by its
\* character, and unformatted is the raw input; so for the documented phone
\* and date masks.
C1_FullInputFillsMask ==
    /\ ( /\ Done
         /\ LiteralsNonAlnum(mask)
         /\ EndsInPlaceholder(mask)
         /\ InputFits(mask, inputValue) )
       => /\ loop.formatted = Fill(mask, inputValue)
          /\ loop.unformatted = inputValue
    /\ Done /\ mask = PhoneMask /\ inputValue = <<"5", "5", "5", "5", "5", "5", "5", "5", "5", "5">>
       => /\ loop.formatted = <<"(", "5", "5", "5", ")", " ", "5", "5", "5", "-", "5", "5", "5", "5">>
          /\ loop.unformatted = <<"5", "5", "5", "5", "5", "5", "5", "5", "5", "5">>
    /\ Done /\ mask = DateMask /\ inputValue = <<"0", "1", "1", "5", "2", "0", "2", "4">>
       => /\ loop.formatted = <<"0", "1", "/", "1", "5", "/", "2", "0", "2", "4">>
          /\ loop.unformatted = <<"0", "1", "1", "5", "2", "0", "2", "4">>

C1_Witness ==
    /\ Done
    /\ mask = PhoneMask
    /\ loop.formatted = <<"(", "5", "5", "5", ")", " ", "5", "5", "5", "-", "5", "5", "5", "5">>
    /\ loop.branch = "consume"

\* C2 as stated: formatting the unformatted result again returns the same
\* formatted and unformatted strings, for every mask.
C2_Original == Done => formatToMask(loop.unformatted) = Result(loop)

\* C2 amended: when the mask's literals are all non-alphanumeric, formatting
\* the unformatted result u again returns unformatted = u and a formatted
\* string that is a prefix of the first one; the two formatted strings are
\* equal when, in addition, every literal is directly followed by a
\* placeholder.
C2_IdempotentOnLeadingLiterals ==
    Done /\ LiteralsNonAlnum(mask)
    => LET again == formatToMask(loop.unformatted) IN
       /\ again.unformatted = loop.unformatted
       /\ IsPrefix(again.formatted, loop.formatted)
       /\ LiteralsLeadPlaceholders(mask) => again.formatted = loop.formatted

C2_Witness ==
    /\ Done
    /\ LiteralsNonAlnum(mask)
    /\ LiteralsLeadPlaceholders(mask)
    /\ loop.unformatted # inputValue
    /\ "auto" \in {loop.kind[i] : i \in 1..Len(loop.kind)}

ShortInput == Len(inputValue) < PlaceholderCount(mask)

\* C3 as stated: with fewer raw characters than placeholders, formatted is
\* empty or ends with a character consumed at a placeholder, for every mask.
C3_Original ==
    Done /\ ShortInput
    => loop.formatted = <<>> \/ Last(loop.kind) = "input"

\* C3 amended: with fewer raw characters than placeholders, formatted is
\* empty or ends with a character consumed at a placeholder whenever the
\* mask's literals are all non-alphanumeric and each directly followed by a
\* placeholder; for any mask, an inserted literal ends formatted only while
\* raw input is left unconsumed, and a literal matched by the input ends it
\* only if that literal is alphanumeric.
C3_NoPaddingOnceInputIsUsedUp ==
    Done /\ ShortInput /\ loop.formatted # <<>>
    => /\ LiteralsNonAlnum(mask) /\ LiteralsLeadPlaceholders(mask)
          => Last(loop.kind) = "input"
       /\ Last(loop.kind) = "auto" => loop.inputIndex < Len(inputValue)
       /\ Last(loop.kind) = "typed" => Last(loop.formatted) \in Alnum

C3_Witness ==
    /\ Done
    /\ ShortInput
    /\ LiteralsNonAlnum(mask)
    /\ LiteralsLeadPlaceholders(mask)
    /\ "auto" \in {loop.kind[i] : i \in 1..Len(loop.kind)}
    /\ Last(loop.kind) = "input"
    /\ loop.branch \in {"noInput", "noInputLiteral"}

\* C4 as stated: unformatted is a subsequence of formatted, and formatted[i]
\* is a literal exactly when mask[i] is, and then equals it.
C4_Original ==
    /\ IsSubseq(loop.unformatted, loop.formatted)
    /\ \A i \in 1..Len(loop.formatted) :
          /\ loop.kind[i] # "input" <=> IsLiteral(mask[i])
          /\ IsLiteral(mask[i]) => loop.formatted[i] = mask[i]

\* C4 amended: unformatted is the subsequence of formatted consumed at
\* placeholders; formatted is the processed part of the mask with the
\* skipped placeholders left out: its i-th character comes from mask position
\* i plus the number of placeholders skipped before it, is a literal exactly
\* when that mask symbol is, and then equals it; every processed literal is
\* in it; so the literal positions of formatted are those of the mask as
\* long as no placeholder was skipped.
C4_LiteralsFollowMaskUpToSkips ==
    /\ IsSubseq(loop.unformatted, loop.formatted)
    /\ loop.unformatted = ConsumedOf(loop)
    /\ Len(loop.origin) = Len(loop.formatted)
    /\ \A i \in 1..Len(loop.formatted) :
          LET m == loop.origin[i] IN
          /\ m = (i - 1) + Cardinality({q \in SkippedSlots(loop) : q < m})
          /\ loop.kind[i] # "input" <=> IsLiteral(At(mask, m))
          /\ IsLiteral(At(mask, m)) => loop.formatted[i] = At(mask, m)
    /\ \A m \in 0..(loop.maskIndex - 1) :
          IsLiteral(At(mask, m)) => m \in EmittedSlots(loop)
    /\ loop.skipped = {}
       => \A i \in 1..Len(loop.formatted) :
             /\ loop.kind[i] # "input" <=> IsLiteral(mask[i])
             /\ IsLiteral(mask[i]) => loop.formatted[i] = mask[i]

C4_Witness ==
    /\ Done
    /\ loop.skipped # {}
    /\ \E i \in 1..Len(loop.formatted) :
          loop.kind[i] = "auto" /\ mask[i] \in Placeholders

\* the running call is at a placeholder whose class the current raw
\* character does not satisfy
AtMismatch ==
    /\ pc = "loop"
    /\ LoopRuns(loop)
    /\ At(mask, loop.maskIndex) \in Placeholders
    /\ loop.inputIndex < Len(inputValue)
    /\ ~charMatchesMask(At(inputValue, loop.inputIndex), At(mask, loop.maskIndex))

MismatchKeepsInput ==
    AtMismatch => /\ loop'.inputIndex = loop.inputIndex
                  /\ loop'.formatted = loop.formatted
                  /\ loop'.unformatted = loop.unformatted

\* C5 as stated: a character of the wrong class is not consumed, the cursor
\* does not advance, nothing is placed, and a later raw character of the
\* right class fills that placeholder position.
C5_Original ==
    /\ [][MismatchKeepsInput]_vars
    /\ [](Done =>
            \A p \in loop.skipped :
               (\E j \in (p[2] + 1)..(Len(inputValue) - 1) :
                    charMatchesMask(At(inputValue, j), At(mask, p[1])))
               => p[1] \in EmittedSlots(loop))

\* C5 amended: a character of the wrong class is not consumed, the cursor
\* does not advance and nothing is placed; the loop goes on to the next mask
\* position with the same character, and the placeholder passed over is
\* never filled, by that character or a later one.
C5_MismatchDropsTheSlot ==
    /\ [][MismatchKeepsInput
          /\ (AtMismatch => /\ loop'.maskIndex = loop.maskIndex + 1
                            /\ ~loop'.brk
                            /\ loop'.skipped = loop.skipped
                                   \cup {<<loop.maskIndex, loop.inputIndex>>})]_vars
    /\ [](SkippedSlots(loop) \cap EmittedSlots(loop) = {})

C5_Witness ==
    /\ Done
    /\ mask = PostalMask
    /\ inputValue = <<"1", "B", "2">>
    /\ loop.skipped = {<<0, 0>>}
    /\ loop.formatted = <<"1", "B", " ", "2">>

\* C9: the loop body runs at most len(mask) times (each iteration advances
\* the mask index or breaks), every string index it reads is in range, and
\* len(formatted) <= len(mask), len(unformatted) <= the number of
\* placeholders, whatever the mask and the raw input.
C9_TerminatesTruncated ==
    /\ iterations <= Len(mask)
    /\ iterations = loop.maskIndex + (IF loop.brk THEN 1 ELSE 0)
    /\ loop.maskIndex <= Len(mask)
    /\ loop.inputIndex <= Len(inputValue)
    /\ Len(loop.formatted) <= Len(mask)
    /\ Len(loop.unformatted) <= PlaceholderCount(mask)
    /\ Len(loop.unformatted) <= Len(inputValue)
    /\ pc = "done" => ~LoopRuns(loop)

C9_Witness ==
    /\ Done
    /\ Len(mask) > 0
    /\ IsLiteral(Last(mask))
    /\ Len(inputValue) > Len(mask)
    /\ loop.skipped # {}
    /\ iterations = Len(mask)
    /\ Len(loop.formatted) < Len(mask)

(* ------------------------- claims: the component ----------------------- *)

Uncontrolled == controlledValue = Undefined

EditEvent == event.type \in {"change", "paste"}

\* what the last change or paste event's text formats to
Formatted == formatToMask(validChars(event.text))

\* C6: every change and paste event formats the alphanumeric characters of
\* its text and calls a registered onMaskedChange exactly once with that
\* (formatted, unformatted) pair; uncontrolled, the displayed value is then
\* that formatted string; controlled, the internal value is left as it was
\* and the displayed value is the controlled value.
C6_EditEventNotifiesAndDisplays ==
    /\ [](EditEvent =>
            /\ onMaskedChange
               => onMaskedChangeCalls =
                     << <<Formatted.formatted, Formatted.unformatted>> >>
            /\ ~onMaskedChange => onMaskedChangeCalls = <<>>
            /\ Uncontrolled => /\ value = Formatted.formatted
                               /\ displayValue = Formatted.formatted
            /\ ~Uncontrolled => displayValue = controlledValue)
    /\ [][~Uncontrolled => value' = value]_vars

C6_Witness ==
    /\ event.type = "change"
    /\ onMaskedChange
    /\ ~Uncontrolled
    /\ Len(onMaskedChangeCalls) = 1
    /\ onMaskedChangeCalls[1][1] # onMaskedChangeCalls[1][2]
    /\ onMaskedChangeCalls[1][1] # displayValue
    /\ validChars(event.text) # event.text
    /\ value = <<>>

\* C8: a paste event always has its default action prevented, and the value
\* written to the input element, and to the internal value when
\* uncontrolled, is the formatted string of the clipboard text's
\* alphanumeric characters, whatever was displayed before.
C8_PasteIsSynthesized ==
    event.type = "paste"
    => /\ event.defaultPrevented
       /\ elemValue = Formatted.formatted
       /\ Uncontrolled => value = Formatted.formatted
       /\ onChange => onChangeCalls = <<Formatted.formatted>>

C8_Witness ==
    /\ event.type = "paste"
    /\ event.defaultPrevented
    /\ ~Uncontrolled
    /\ validChars(event.text) # event.text
    /\ elemValue # <<>>
    /\ elemValue # displayValue

Stable(d) == formatToMask(validChars(d)).formatted = d

\* C10 as stated: uncontrolled, with a mask whose literals are all
\* non-alphanumeric, the displayed value formats to itself.
C10_Original ==
    Uncontrolled /\ LiteralsNonAlnum(mask) => Stable(displayValue)

\* C10 amended: uncontrolled, with a mask whose literals are all
\* non-alphanumeric, formatting the displayed value d again gives a prefix
\* of d with the same alphanumeric characters, and gives d itself when
\* every literal of the mask is directly followed by a placeholder.
C10_DisplayStableOnLeadingLiterals ==
    Uncontrolled /\ LiteralsNonAlnum(mask)
    => LET again == formatToMask(validChars(displayValue)) IN
       /\ IsPrefix(again.formatted, displayValue)
       /\ again.unformatted = validChars(displayValue)
       /\ LiteralsLeadPlaceholders(mask) => again.formatted = displayValue

C10_Witness ==
    /\ Uncontrolled
    /\ LiteralsNonAlnum(mask)
    /\ LiteralsLeadPlaceholders(mask)
    /\ event.type = "change"
    /\ validChars(displayValue) # displayValue
    /\ event.text # displayValue

(* --------------------------- claims: key events ------------------------ *)

NavigationKeys == allowedKeys \cup {<<"A", "r", "r", "o", "w", "U", "p">>,
     <<"A", "r", "r", "o", "w", "D", "o", "w", "n">>}

\* C7: handleKeyDown prevents the default action exactly when no modifier
\* is held, the key is not a navigation or editing key and the key is not a
\* single alphanumeric character.
C7_PreventsExactlyNonAlnumKeys ==
    event.type = "keydown"
    => ( event.defaultPrevented
         <=> /\ ~(event.ctrlKey \/ event.metaKey \/ event.altKey \/ event.shiftKey)
             /\ event.key \notin NavigationKeys
             /\ ~(Len(event.key) = 1 /\ event.key[1] \in Alnum) )

====
